---- MODULE Spec2Model ----
(***************************************************************************)
(* Model of the ADNL query correlation cache                               *)
(* (src/node_rpc/tcp_adnl/queries_cache.rs): QueriesCache with its table   *)
(* of QueryState entries, the PendingAdnlQuery handles returned by         *)
(* add_query, and the update_query calls of the resolver contexts.         *)
(*                                                                         *)
(* Every add_query builds a fresh tokio Barrier::new(2); a barrier is      *)
(* identified here by the index of the handle that add_query returned.     *)
(* Barrier::wait counts the caller in on its first poll and completes the  *)
(* generation when the second party arrives; a party that is dropped while *)
(* suspended stays counted.                                                *)
(*                                                                         *)
(* The module also holds parse_node_version of src/cli/init.rs, the pure   *)
(* function that reads the version out of the node's output.               *)
(***************************************************************************)
EXTENDS Integers, Sequences, FiniteSets, TLC

\* ---- bounds of the model
MaxHandles == 2
MaxCalls == 2
\* the registrations and calls of the behaviours checked for liveness
LiveHandles == 1
LiveCalls == 1
\* the longest byte string tried after the version prefix
MaxTail == 4

Handles == 1..MaxHandles
Calls == 1..MaxCalls
\* two query identifiers, standing for two distinct [u8; 32] values
Ids == {1, 2}

\* byte strings used as answers: the empty one and a two-byte one
Payloads == {<<>>, <<1, 2>>}

\* Option<&[u8]>, the answer argument of update_query
NoneAns == [tag |-> "None", val |-> <<>>]
SomeAns(bytes) == [tag |-> "Some", val |-> bytes]
Answers == {NoneAns} \cup {SomeAns(p) : p \in Payloads}

\* ---- enum QueryState, plus the vacant slot of the map
Absent == [tag |-> "Absent", barrier |-> 0, answer |-> <<>>]
Sent(b) == [tag |-> "Sent", barrier |-> b, answer |-> <<>>]
Received(bytes) == [tag |-> "Received", barrier |-> 0, answer |-> bytes]
Timeout == [tag |-> "Timeout", barrier |-> 0, answer |-> <<>>]

\* (a copy that loses the last byte)
ToVecShort(bytes) == [i \in 1..(Len(bytes) - 1) |-> bytes[i]]
\* bytes.to_vec(): an element-wise copy into a new vector
ToVec(bytes) == [i \in 1..Len(bytes) |-> bytes[i]]

\* ---- results
Pending == [tag |-> "Pending", val |-> <<>>]
OkSome(bytes) == [tag |-> "OkSome", val |-> bytes]
OkNone == [tag |-> "OkNone", val |-> <<>>]
Err(e) == [tag |-> e, val |-> <<>>]

\* Option<&str> of parse_node_version, a str being its bytes; Unparsed
\* while the function has not run
Unparsed == [tag |-> "Unparsed", val |-> <<>>]
NoVersion == [tag |-> "None", val |-> <<>>]
SomeVersion(str) == [tag |-> "Some", val |-> str]

VARIABLES
    owner,      \* some strong Arc<QueriesCache> is held outside the handles
    queries,    \* QueriesCache.queries: query_id -> QueryState (Absent = vacant)
    handles,    \* PendingAdnlQuery per add_query: pc, query_id, finished, res,
                \* and removes, the queries.remove calls made for it
    barriers,   \* Barrier per add_query: arrived, generation
    calls,      \* update_query invocations: pc, query_id, answer, old, res,
                \* and guard, whether the call holds its entry guard
    output,     \* the bytes given to parse_node_version
    version     \* what parse_node_version returned for them

vars == <<owner, queries, handles, barriers, calls, output, version>>

EmptyTable == [i \in Ids |-> Absent]

NoHandle == [pc |-> "none", query_id |-> 0, finished |-> FALSE, gen |-> 0,
             res |-> Pending, removes |-> 0]
\* Option<QueryState>::None of update_query's `old` is the Absent record
NoCall == [pc |-> "idle", query_id |-> 0, answer |-> NoneAns, old |-> Absent,
           gen |-> 0, res |-> "none", guard |-> FALSE]

Init ==
    /\ owner = TRUE
    /\ queries = EmptyTable
    /\ handles = [h \in Handles |-> NoHandle]
    /\ barriers = [h \in Handles |-> [arrived |-> 0, generation |-> 0]]
    /\ calls = [c \in Calls |-> NoCall]
    /\ output = <<>>
    /\ version = Unparsed

\* ---- strong references
\* a wait between its upgrade and its return holds an upgraded Arc
Upgraded(hs) == {h \in Handles : hs[h].pc = "upgraded"}
\* update_query borrows the cache (&self) for the whole call
InCall(cs) == {c \in Calls : cs[c].pc \in {"matched", "suspended"}}
\* (an upgrade that succeeds with no strong reference left)
AliveAlways == TRUE
\* Weak::upgrade succeeds
Alive == owner \/ Upgraded(handles) # {}

\* the table after a step: dropped with the cache when the last Arc went
TableAfter(q, own, hs) == IF own \/ Upgraded(hs) # {} THEN q ELSE EmptyTable

\* ---- tokio::sync::Barrier::new(2)
BarrierParties == 2
\* (a last party that passes without releasing the generation)
BarrierArriveNoRelease(bar) ==
    IF bar.arrived + 1 = BarrierParties
    THEN [arrived |-> 0, generation |-> bar.generation]
    ELSE [arrived |-> bar.arrived + 1, generation |-> bar.generation]
\* the first poll of Barrier::wait: count the caller in; the last party
\* releases the generation and starts the next one
BarrierArrive(bar) ==
    IF bar.arrived + 1 = BarrierParties
    THEN [arrived |-> 0, generation |-> bar.generation + 1]
    ELSE [arrived |-> bar.arrived + 1, generation |-> bar.generation]
\* (a barrier that lets a lone party through)
BarrierLeaderSolo(bar) == bar.arrived + 1 >= 1
\* whether the arrival completes the generation (the caller does not suspend)
BarrierLeader(bar) == bar.arrived + 1 = BarrierParties
\* (a suspended party released before the generation is complete)
BarrierReleasedEarly(bar, gen) == bar.generation >= gen
\* a suspended party is released once the generation it joined is complete
BarrierReleased(bar, gen) == bar.generation > gen

\* ---- the table's shard locks (taken as one shard: any two keys may share
\* one). An insert, entry or remove waits while a call holds an entry guard.
Unlocked == \A c \in Calls : ~calls[c].guard

\* ---- the caller contract of add_query: the identifier is not registered,
\* i.e. it has no entry and no handle that is still outstanding
Outstanding(h) == handles[h].pc \in {"held", "suspended", "passed", "upgraded"}
Registered(id) ==
    \/ queries[id] # Absent
    \/ \E h \in Handles : Outstanding(h) /\ handles[h].query_id = id

\* ---- QueriesCache::add_query
\* handles are numbered in the order add_query returns them
NextHandle ==
    IF \E h \in Handles : handles[h].pc = "none"
    THEN CHOOSE h \in Handles : /\ handles[h].pc = "none"
                                /\ \A g \in Handles : g < h => handles[g].pc # "none"
    ELSE 0

\* (every entry holding one shared barrier instead of a fresh one)
AddQueryInsertShared(q, id, h) == [q EXCEPT ![id] = Sent(1)]
\* (an insert that keeps the entry already there)
AddQueryInsertIfVacant(q, id, h) ==
    IF q[id] = Absent THEN [q EXCEPT ![id] = Sent(h)] ELSE q
\* self.queries.insert(query_id, QueryState::Sent(barrier.clone()))
AddQueryInsert(q, id, h) == [q EXCEPT ![id] = Sent(h)]

\* (a handle that keeps a fixed identifier instead of its own)
NewHandleFixedId(id) ==
    [pc |-> "held", query_id |-> 1, finished |-> FALSE, gen |-> 0, res |-> Pending,
     removes |-> 0]
\* the PendingAdnlQuery that add_query returns
NewHandle(id) ==
    [pc |-> "held", query_id |-> id, finished |-> FALSE, gen |-> 0, res |-> Pending,
     removes |-> 0]

AddQuery(id) ==
    /\ owner
    /\ ~Registered(id)
    /\ NextHandle # 0
    /\ Unlocked
    /\ LET h == NextHandle IN
        /\ queries' = AddQueryInsert(queries, id, h)
        /\ handles' = [handles EXCEPT ![h] = NewHandle(id)]
    /\ UNCHANGED <<output, version, owner, barriers, calls>>

\* ---- QueriesCache::update_query
NextCall ==
    IF \E c \in Calls : calls[c].pc = "idle"
    THEN CHOOSE c \in Calls : /\ calls[c].pc = "idle"
                              /\ \A d \in Calls : d < c => calls[d].pc # "idle"
    ELSE 0

\* (a missing answer stored as an empty one)
AnswerStateNoTimeout(ans) == Received(ToVec(ans.val))
\* the state the answer stands for
AnswerState(ans) ==
    IF ans.tag = "Some" THEN Received(ToVec(ans.val)) ELSE Timeout

\* the entry section (one shard guard): the value bound to `old` ...
EntryOld(cur) ==
    IF cur.tag = "Absent" THEN Absent
    ELSE IF cur.tag = "Sent" THEN cur
    ELSE Absent
\* (an entry section that also fills a vacant slot)
EntryNewUpsert(cur, ans) ==
    IF cur.tag \in {"Sent", "Absent"} THEN AnswerState(ans) ELSE cur
\* (an entry section that replaces a terminal state too)
EntryNewOverwrite(cur, ans) ==
    IF cur.tag # "Absent" THEN AnswerState(ans) ELSE cur
\* (an entry section that leaves the Sent state in place)
EntryNewKeep(cur, ans) == cur
\* ... and the entry it leaves in the table
EntryNew(cur, ans) ==
    IF cur.tag = "Sent" THEN AnswerState(ans) ELSE cur

\* (the absent and terminal arms answering Ok(true))
MatchResultTrue(old) == IF old.tag = "Sent" THEN "none" ELSE "OkTrue"
\* the arms of `match old` that return at once
MatchResult(old) ==
    IF old.tag = "Sent" THEN "none"
    ELSE IF old.tag # "Absent" THEN "ErrUnexpectedState"
    ELSE "OkFalse"

\* (an entry guard kept while the call goes on to the barrier)
GuardKeptToBarrier(old) == old.tag = "Sent"
\* whether the call still holds the entry guard after the `let old`
\* statement: the Entry is a temporary of that statement
GuardKept(old) == FALSE

\* the call up to the end of the entry section; it returns here unless `old`
\* holds the barrier
UpdateEntry(id, ans) ==
    /\ owner
    /\ NextCall # 0
    /\ Unlocked
    /\ LET c == NextCall
           old == EntryOld(queries[id])
       IN
        /\ queries' = [queries EXCEPT ![id] = EntryNew(queries[id], ans)]
        /\ calls' = [calls EXCEPT ![c] =
               [pc |-> IF old.tag = "Sent" THEN "matched" ELSE "done",
                query_id |-> id, answer |-> ans, old |-> old, gen |-> 0,
                res |-> MatchResult(old), guard |-> GuardKept(old)]]
    /\ UNCHANGED <<output, version, owner, handles, barriers>>

\* Some(QueryState::Sent(barrier)) => barrier.wait(), first poll
UpdateArrive(c) ==
    /\ calls[c].pc = "matched"
    /\ LET b == calls[c].old.barrier IN
        /\ barriers' = [barriers EXCEPT ![b] = BarrierArrive(barriers[b])]
        /\ calls' = [calls EXCEPT ![c] =
               IF BarrierLeader(barriers[b])
               THEN [@ EXCEPT !.pc = "done", !.res = "OkTrue", !.guard = FALSE]
               ELSE [@ EXCEPT !.pc = "suspended", !.gen = barriers[b].generation]]
    /\ UNCHANGED <<output, version, owner, queries, handles>>

\* the barrier released the suspended call: Ok(true)
UpdateResume(c) ==
    /\ calls[c].pc = "suspended"
    /\ BarrierReleased(barriers[calls[c].old.barrier], calls[c].gen)
    /\ calls' = [calls EXCEPT ![c] =
           [@ EXCEPT !.pc = "done", !.res = "OkTrue", !.guard = FALSE]]
    /\ UNCHANGED <<output, version, owner, queries, handles, barriers>>

\* ---- PendingAdnlQuery::wait
\* self.barrier.wait(), first poll (the handle's barrier is its own index)
WaitArrive(h) ==
    /\ handles[h].pc = "held"
    /\ barriers' = [barriers EXCEPT ![h] = BarrierArrive(barriers[h])]
    /\ handles' = [handles EXCEPT ![h] =
           IF BarrierLeader(barriers[h])
           THEN [@ EXCEPT !.pc = "passed"]
           ELSE [@ EXCEPT !.pc = "suspended", !.gen = barriers[h].generation]]
    /\ UNCHANGED <<output, version, owner, queries, calls>>

\* the barrier released the suspended wait
WaitWake(h) ==
    /\ handles[h].pc = "suspended"
    /\ BarrierReleased(barriers[h], handles[h].gen)
    /\ handles' = [handles EXCEPT ![h] = [@ EXCEPT !.pc = "passed"]]
    /\ UNCHANGED <<output, version, owner, queries, barriers, calls>>

\* self.finished = true; self.cache.upgrade()
WaitUpgrade(h) ==
    /\ handles[h].pc = "passed"
    /\ handles' = [handles EXCEPT ![h] =
           IF Alive
           THEN [@ EXCEPT !.pc = "upgraded", !.finished = TRUE]
           ELSE [@ EXCEPT !.pc = "returned", !.finished = TRUE,
                          !.res = Err("CacheDropped")]]
    /\ UNCHANGED <<output, version, owner, queries, barriers, calls>>

\* (a remove that clears the whole table)
RemoveAll(q, id) == EmptyTable
\* (a lookup that leaves the entry in the table)
RemoveNothing(q, id) == q
\* FxDashMap::remove
Remove(q, id) == [q EXCEPT ![id] = Absent]

\* match cache.queries.remove(&self.query_id)
WaitResult(removed) ==
    IF removed.tag = "Received" THEN OkSome(removed.answer)
    ELSE IF removed.tag = "Timeout" THEN OkNone
    ELSE IF removed.tag # "Absent" THEN Err("InvalidQueryState")
    ELSE Err("UnknownId")

\* ---- Drop for PendingAdnlQuery
\* (the finished flag read the wrong way round)
DropRemovesFinished(finished, alive) == finished /\ alive
\* (a drop that forgets the finished flag)
DropRemovesAlways(finished, alive) == alive
\* (a drop that goes to the table without the upgrade)
DropRemovesUnfinished(finished, alive) == ~finished
\* (a drop that never cleans up)
DropRemovesNever(finished, alive) == FALSE
\* the drop removes the entry: not finished, and the upgrade succeeds
DropRemoves(finished, alive) == ~finished /\ alive

\* the table after the drop, and the remove calls the drop makes
DropTable(q, id, finished, alive) ==
    IF DropRemoves(finished, alive) THEN Remove(q, id) ELSE q
DropCount(finished, alive) == IF DropRemoves(finished, alive) THEN 1 ELSE 0

\* the drop of a handle whose wait has not finished: never waited on, or
\* abandoned while suspended in barrier.wait()
DropHandle(h) ==
    /\ handles[h].pc \in {"held", "suspended"}
    /\ DropRemoves(handles[h].finished, Alive) => Unlocked
    /\ handles' = [handles EXCEPT ![h] =
           [@ EXCEPT !.pc = "dropped",
                     !.removes = @ + DropCount(handles[h].finished, Alive)]]
    /\ queries' = TableAfter(
           DropTable(queries, handles[h].query_id, handles[h].finished, Alive),
           owner, handles')
    /\ UNCHANGED <<output, version, owner, barriers, calls>>

\* ---- the end of PendingAdnlQuery::wait: the remove, the result, and the
\* drop of the upgraded Arc and then of self, finished being set
WaitRemove(h) ==
    /\ handles[h].pc = "upgraded"
    /\ Unlocked
    /\ LET id == handles[h].query_id
           alive == owner \/ Upgraded(handles) \ {h} # {}
       IN
        /\ handles' = [handles EXCEPT ![h] =
               [@ EXCEPT !.pc = "returned",
                         !.res = WaitResult(queries[id]),
                         !.removes = @ + 1 + DropCount(handles[h].finished, alive)]]
        /\ queries' = TableAfter(
               DropTable(Remove(queries, id), id, handles[h].finished, alive),
               owner, handles')
    /\ UNCHANGED <<output, version, owner, barriers, calls>>

\* ---- the last strong Arc<QueriesCache> outside the handles is dropped; no
\* update_query is running, since a running call borrows the cache
Teardown ==
    /\ owner
    /\ InCall(calls) = {}
    /\ owner' = FALSE
    /\ queries' = TableAfter(queries, FALSE, handles)
    /\ UNCHANGED <<output, version, handles, barriers, calls>>

Next ==
    \/ \E id \in Ids : AddQuery(id)
    \/ \E id \in Ids, ans \in Answers : UpdateEntry(id, ans)
    \/ \E c \in Calls : UpdateArrive(c)
    \/ \E c \in Calls : UpdateResume(c)
    \/ \E h \in Handles : WaitArrive(h)
    \/ \E h \in Handles : WaitWake(h)
    \/ \E h \in Handles : WaitUpgrade(h)
    \/ \E h \in Handles : WaitRemove(h)
    \/ \E h \in Handles : DropHandle(h)
    \/ Teardown

Spec == Init /\ [][Next]_vars

\* the steps the runtime takes on its own once a call or a wait is under way
Progress ==
    /\ \A c \in Calls : WF_vars(UpdateArrive(c)) /\ WF_vars(UpdateResume(c))
    /\ \A h \in Handles :
        WF_vars(WaitWake(h)) /\ WF_vars(WaitUpgrade(h)) /\ WF_vars(WaitRemove(h))

\* the same steps, with fewer registrations and calls
FairNext ==
    \/ \E id \in Ids : NextHandle <= LiveHandles /\ AddQuery(id)
    \/ \E id \in Ids, ans \in Answers : NextCall <= LiveCalls /\ UpdateEntry(id, ans)
    \/ \E c \in Calls : UpdateArrive(c)
    \/ \E c \in Calls : UpdateResume(c)
    \/ \E h \in Handles : WaitArrive(h)
    \/ \E h \in Handles : WaitWake(h)
    \/ \E h \in Handles : WaitUpgrade(h)
    \/ \E h \in Handles : WaitRemove(h)
    \/ \E h \in Handles : DropHandle(h)
    \/ Teardown

FairSpec == Init /\ [][FairNext]_vars /\ Progress

\* ---- add_query outside its caller contract: the identifier is registered
\* already, by an entry in the table or by a handle still outstanding
AddQueryAgain(id) ==
    /\ owner
    /\ Registered(id)
    /\ NextHandle # 0
    /\ Unlocked
    /\ LET h == NextHandle IN
        /\ queries' = AddQueryInsert(queries, id, h)
        /\ handles' = [handles EXCEPT ![h] = NewHandle(id)]
    /\ UNCHANGED <<output, version, owner, barriers, calls>>

\* all steps, add_query on any identifier, with fewer calls
ReuseNext ==
    \/ \E id \in Ids : AddQuery(id)
    \/ \E id \in Ids : AddQueryAgain(id)
    \/ \E id \in Ids, ans \in Answers : NextCall <= LiveCalls /\ UpdateEntry(id, ans)
    \/ \E c \in Calls : UpdateArrive(c)
    \/ \E c \in Calls : UpdateResume(c)
    \/ \E h \in Handles : WaitArrive(h)
    \/ \E h \in Handles : WaitWake(h)
    \/ \E h \in Handles : WaitUpgrade(h)
    \/ \E h \in Handles : WaitRemove(h)
    \/ \E h \in Handles : DropHandle(h)
    \/ Teardown

ReuseSpec == Init /\ [][ReuseNext]_vars

\* ---- parse_node_version (src/cli/init.rs)
\* b"TON Node, version "
Prefix == <<84, 79, 78, 32, 78, 111, 100, 101, 44, 32,
            118, 101, 114, 115, 105, 111, 110, 32>>
\* b'\n'
Newline == 10

\* the bytes tried after the prefix: the newline, the digit 0, a continuation
\* byte, the lead bytes C3, E0, ED and F0, and FF, which no encoding holds
TailBytes == {Newline, 48, 169, 195, 224, 237, 240, 255}
\* every byte string of them up to the bound
Tails == UNION {[1..n -> TailBytes] : n \in 0..MaxTail}

\* the outputs tried: the prefix with every tail, every tail alone, the
\* prefix cut short, the prefix with one byte changed, and the prefix behind
\* a leading space, the last two followed by a version
Outputs ==
    {Prefix \o t : t \in Tails}
    \cup Tails
    \cup {SubSeq(Prefix, 1, n) : n \in 0..Len(Prefix)}
    \cup {[i \in 1..Len(Prefix) |-> IF i = k THEN 48 ELSE Prefix[i]] \o <<48>>
           : k \in 1..Len(Prefix)}
    \cup {<<32>> \o Prefix \o <<48>>}

\* (a prefix test that looks at the first byte only)
StripPrefixFirstByte(s, p) ==
    IF Len(s) >= Len(p) /\ s[1] = p[1]
    THEN SomeAns(SubSeq(s, Len(p) + 1, Len(s)))
    ELSE NoneAns
\* <[u8]>::strip_prefix: the rest behind the prefix, as Option<&[u8]>
StripPrefix(s, p) ==
    IF Len(s) >= Len(p) /\ SubSeq(s, 1, Len(p)) = p
    THEN SomeAns(SubSeq(s, Len(p) + 1, Len(s)))
    ELSE NoneAns

\* (a split that hands back the whole slice)
SplitNone(s) == s
\* output.split(|&ch| ch == b'\n').next(): the bytes before the first
\* newline, the whole slice if it has none; never None
SplitFirst(s) ==
    LET at == {i \in 1..Len(s) : s[i] = Newline} IN
    IF at = {} THEN s
    ELSE SubSeq(s, 1, (CHOOSE i \in at : \A j \in at : i <= j) - 1)

\* core::str::utf8_char_width: the length the first byte announces, 0 for a
\* byte that starts no encoding
Utf8CharWidth(b) ==
    IF b < 128 THEN 1
    ELSE IF b >= 194 /\ b <= 223 THEN 2
    ELSE IF b >= 224 /\ b <= 239 THEN 3
    ELSE IF b >= 240 /\ b <= 244 THEN 4
    ELSE 0
\* a continuation byte, 0x80..=0xBF
IsCont(b) == b >= 128 /\ b <= 191
\* the pairs of first and second byte that the validation accepts for the
\* three-byte and four-byte encodings
SecondOk(first, second) ==
    \/ first = 224 /\ second >= 160 /\ second <= 191
    \/ first >= 225 /\ first <= 236 /\ IsCont(second)
    \/ first = 237 /\ second >= 128 /\ second <= 159
    \/ first >= 238 /\ first <= 239 /\ IsCont(second)
    \/ first = 240 /\ second >= 144 /\ second <= 191
    \/ first >= 241 /\ first <= 243 /\ IsCont(second)
    \/ first = 244 /\ second >= 128 /\ second <= 143

\* (a validation that takes every byte string)
RunUtf8ValidationLossy(s) == TRUE
\* std::str::from_utf8(..).ok() is Some: the scan of run_utf8_validation
RECURSIVE RunUtf8Validation(_)
RunUtf8Validation(s) ==
    IF s = <<>> THEN TRUE
    ELSE LET w == Utf8CharWidth(s[1]) IN
        /\ w # 0
        /\ Len(s) >= w
        /\ w = 2 => IsCont(s[2])
        /\ w >= 3 => SecondOk(s[1], s[2])
        /\ \A i \in 3..w : IsCont(s[i])
        /\ RunUtf8Validation(SubSeq(s, w + 1, Len(s)))

ParseNodeVersion(out) ==
    LET stripped == StripPrefix(out, Prefix) IN
    IF stripped.tag = "None" THEN NoVersion
    ELSE LET first == SplitFirst(stripped.val) IN
        IF RunUtf8Validation(first) THEN SomeVersion(first) ELSE NoVersion

\* the function is given any of the outputs ...
ParseInit ==
    /\ owner = TRUE
    /\ queries = EmptyTable
    /\ handles = [h \in Handles |-> NoHandle]
    /\ barriers = [h \in Handles |-> [arrived |-> 0, generation |-> 0]]
    /\ calls = [c \in Calls |-> NoCall]
    /\ output \in Outputs
    /\ version = Unparsed

\* ... and returns
ParseStep ==
    /\ version = Unparsed
    /\ version' = ParseNodeVersion(output)
    /\ UNCHANGED <<owner, queries, handles, barriers, calls, output>>

ParseSpec == ParseInit /\ [][ParseStep]_vars

\* ---- helpers of the properties
\* call c is the one that found handle h's entry Sent and took its barrier
ResolvedBy(h, c) == calls[c].pc # "idle" /\ calls[c].old = Sent(h)
\* what wait returns for a deposited answer
Outcome(ans) == IF ans.tag = "Some" THEN OkSome(ans.val) ELSE OkNone
\* wait found the cache gone, which takes the teardown of the registry
DroppedResult(h) == handles[h].res = Err("CacheDropped") /\ ~owner

\* C1: after add_query(id), update_query(id, Some(p)) and wait() on the
\* handle, in any interleaving, wait returns Ok(Some(p)) with exactly the
\* bytes p (the registry being alive).
C1_WaitReturnsPayload ==
    \A h \in Handles, c \in Calls :
        (/\ handles[h].pc = "returned"
         /\ ResolvedBy(h, c)
         /\ calls[c].answer.tag = "Some")
        => (handles[h].res = OkSome(calls[c].answer.val) \/ DroppedResult(h))

C1_Witness ==
    \E h \in Handles, c \in Calls :
        /\ handles[h].pc = "returned"
        /\ ResolvedBy(h, c)
        /\ calls[c].answer = SomeAns(<<1, 2>>)
        /\ calls[c].res = "OkTrue"
        /\ handles[h].res = OkSome(<<1, 2>>)

\* C2: after add_query(id), update_query(id, None) and wait() on the handle,
\* wait returns Ok(None); from the deposit to its removal the entry is
\* Timeout, never Received.
C2_TimeoutReturnsNone ==
    \A h \in Handles, c \in Calls :
        (ResolvedBy(h, c) /\ calls[c].answer = NoneAns)
        => /\ handles[h].pc = "returned"
              => (handles[h].res = OkNone \/ DroppedResult(h))
           /\ (Outstanding(h) /\ Alive)
              => queries[handles[h].query_id] = Timeout

C2_Witness ==
    \E h \in Handles, c \in Calls :
        /\ handles[h].pc = "returned"
        /\ ResolvedBy(h, c)
        /\ calls[c].answer = NoneAns
        /\ calls[c].res = "OkTrue"
        /\ handles[h].res = OkNone

\* the step in which update_query call c runs its entry section
Starts(c) == calls[c].pc = "idle" /\ calls'[c].pc # "idle"

\* C3: update_query on an identifier whose entry is still in the table in a
\* terminal state (Received or Timeout) returns Err(UnexpectedState), and the
\* call that found it Sent returns Ok(true).
C3_SecondUpdateErrs ==
    [][\A c \in Calls :
        /\ (Starts(c) /\ queries[calls'[c].query_id].tag \in {"Received", "Timeout"})
            => calls'[c].res = "ErrUnexpectedState"
        /\ (calls'[c].pc = "done" /\ calls'[c].old.tag = "Sent")
            => calls'[c].res = "OkTrue"]_vars

\* C4: a wait suspended at its barrier when the registry is torn down
\* eventually returns Err(CacheDropped) (unless its handle is abandoned).
C4_TeardownEndsWait ==
    \A h \in Handles :
        (handles[h].pc = "suspended" /\ ~Alive)
        ~> (handles[h].res = Err("CacheDropped") \/ handles[h].pc = "dropped")

\* C5: an update_query call that has deposited its answer eventually returns
\* when the issuer drops the handle instead of completing the wait.
C5_DropNeverBlocksResolver ==
    \A c \in Calls :
        (/\ calls[c].pc \in {"matched", "suspended"}
         /\ handles[calls[c].old.barrier].pc = "dropped")
        ~> (calls[c].pc = "done")

\* C6: every wait that returns an outcome returns the one that an
\* update_query call deposited for the handle's own identifier and
\* registration, never one given for another identifier.
C6_NoCrossDelivery ==
    \A h \in Handles :
        handles[h].res.tag \in {"OkSome", "OkNone"}
        => \E c \in Calls :
            /\ ResolvedBy(h, c)
            /\ calls[c].query_id = handles[h].query_id
            /\ handles[h].res = Outcome(calls[c].answer)

\* two identifiers resolved in the opposite order of their registration,
\* each wait with its own payload
C6_Witness ==
    \E h1, h2 \in Handles, c1, c2 \in Calls :
        /\ h1 < h2 /\ c1 < c2
        /\ handles[h1].query_id # handles[h2].query_id
        /\ ResolvedBy(h2, c1) /\ ResolvedBy(h1, c2)
        /\ calls[c1].answer = SomeAns(<<>>) /\ calls[c2].answer = SomeAns(<<1, 2>>)
        /\ handles[h2].res = OkSome(<<>>) /\ handles[h1].res = OkSome(<<1, 2>>)

\* C7: no lost wakeup. Once the handle's wait is under way and an
\* update_query call has deposited an outcome for it, the wait returns that
\* outcome, whichever of the two reached the barrier first (unless the
\* handle is abandoned or the registry torn down).
C7_NoLostWakeup ==
    \A h \in Handles :
        (/\ handles[h].pc \in {"suspended", "passed", "upgraded"}
         /\ \E c \in Calls : ResolvedBy(h, c))
        ~> (\/ \E c \in Calls :
                ResolvedBy(h, c) /\ handles[h].res = Outcome(calls[c].answer)
            \/ handles[h].pc = "dropped"
            \/ ~owner)

\* the wait was suspended first and is released, not yet woken, by the call
\* that has returned Ok(true)
C7_Witness ==
    \E h \in Handles, c \in Calls :
        /\ handles[h].pc = "suspended"
        /\ ResolvedBy(h, c)
        /\ calls[c].res = "OkTrue"
        /\ BarrierReleased(barriers[h], handles[h].gen)
        /\ owner

\* C8: update_query on an identifier that has no entry returns Ok(false) in
\* its entry step, without arriving at any barrier, and leaves the table
\* unchanged.
C8_AbsentReturnsFalse ==
    [][\A c \in Calls :
        (Starts(c) /\ queries[calls'[c].query_id] = Absent)
        => /\ calls'[c].pc = "done"
           /\ calls'[c].res = "OkFalse"
           /\ queries' = queries
           /\ barriers' = barriers]_vars

\* a call on an identifier that was never registered returned Ok(false)
\* while another identifier's entry is in the table; the slot is still vacant
C8_Witness ==
    \E c \in Calls, id \in Ids :
        /\ calls[c].pc = "done"
        /\ calls[c].res = "OkFalse"
        /\ calls[c].answer = SomeAns(<<1, 2>>)
        /\ \A h \in Handles : handles[h].query_id # calls[c].query_id
        /\ queries[calls[c].query_id] = Absent
        /\ queries[id].tag = "Sent"
        /\ owner

\* the handle's drop step, and whether a later add_query took h's identifier
Drops(h) == handles[h].pc \in {"held", "suspended"} /\ handles'[h].pc = "dropped"
ReRegistered(h) ==
    \E g \in Handles : g > h /\ handles[g].query_id = handles[h].query_id

\* C9: while the registry is alive, the drop of a handle whose wait has not
\* completed leaves no entry for its identifier, whatever state the entry
\* was in; an update_query on that identifier that starts afterwards (the
\* identifier not registered again) returns Ok(false).
C9_DropRemovesEntry ==
    [][/\ \A h \in Handles :
            (Drops(h) /\ Alive) => queries'[handles[h].query_id] = Absent
       /\ \A h \in Handles, c \in Calls :
            (/\ handles[h].pc = "dropped" /\ ~ReRegistered(h)
             /\ Starts(c) /\ calls'[c].query_id = handles[h].query_id)
            => calls'[c].res = "OkFalse" /\ calls'[c].pc = "done"]_vars

\* a handle dropped with its entry already resolved: the entry is gone and
\* a call on the identifier returned Ok(false)
C9_Witness ==
    \E h \in Handles, c1, c2 \in Calls :
        /\ c1 < c2
        /\ handles[h].pc = "dropped"
        /\ ResolvedBy(h, c1)
        /\ calls[c2].query_id = handles[h].query_id
        /\ calls[c2].res = "OkFalse"
        /\ queries[handles[h].query_id] = Absent
        /\ owner

\* C10: the outcome stored in a registration's entry is the one deposited by
\* the call that found the entry Sent; it stays so under later calls until
\* the entry is removed, and it is what wait returns.
C10_FirstOutcomeKept ==
    \A h \in Handles, c \in Calls :
        ResolvedBy(h, c)
        => /\ (Outstanding(h) /\ Alive)
              => queries[handles[h].query_id] = AnswerState(calls[c].answer)
           /\ handles[h].res.tag \in {"OkSome", "OkNone"}
              => handles[h].res = Outcome(calls[c].answer)

\* two calls on the same registered identifier with different answers, the
\* second after the first has deposited; wait returned the first one's
C10_Witness ==
    \E h \in Handles, c1, c2 \in Calls :
        /\ c1 < c2
        /\ ResolvedBy(h, c1)
        /\ calls[c2].query_id = handles[h].query_id
        /\ calls[c1].answer = SomeAns(<<1, 2>>)
        /\ calls[c2].answer = SomeAns(<<>>)
        /\ calls[c2].pc = "done" /\ calls[c2].old = Absent
        /\ handles[h].res = OkSome(<<1, 2>>)
        /\ ~ReRegistered(h)

\* C11: at-most-one delivery. Among all update_query calls, at most one
\* returns Ok(true) per registration: a call returns Ok(true) only if it
\* found a registration's entry Sent, and no two calls found the same one.
C11_AtMostOneDelivery ==
    /\ \A c \in Calls : calls[c].res = "OkTrue" => calls[c].old.tag = "Sent"
    /\ \A c1, c2 \in Calls :
        (/\ c1 # c2
         /\ calls[c1].old.tag = "Sent"
         /\ calls[c2].old.tag = "Sent")
        => calls[c1].old.barrier # calls[c2].old.barrier

\* two calls on one registered identifier are done, the first with Ok(true),
\* the second not
C11_Witness ==
    \E h \in Handles, c1, c2 \in Calls :
        /\ c1 < c2
        /\ ResolvedBy(h, c1)
        /\ calls[c1].res = "OkTrue"
        /\ calls[c2].query_id = handles[h].query_id
        /\ calls[c2].pc = "done"
        /\ calls[c2].res # "OkTrue"
        /\ ~ReRegistered(h)

\* C12: after a wait has returned Ok(Some(payload)) or Ok(None), the table
\* holds no entry for the handle's identifier, unless the identifier was
\* registered again.
C12_WaitRemovesEntry ==
    \A h \in Handles :
        (handles[h].res.tag \in {"OkSome", "OkNone"} /\ ~ReRegistered(h))
        => queries[handles[h].query_id] = Absent

\* a wait returned its payload with the registry alive and another
\* identifier's entry still in the table
C12_Witness ==
    \E h \in Handles, id \in Ids :
        /\ handles[h].res = OkSome(<<1, 2>>)
        /\ ~ReRegistered(h)
        /\ queries[id] # Absent
        /\ owner

\* a wait that is past its barrier: released, or further on
PastGate(h) ==
    \/ handles[h].pc \in {"passed", "upgraded"}
    \/ handles[h].pc = "suspended" /\ BarrierReleased(barriers[h], handles[h].gen)

\* C13: with every identifier registered at most once at a time, no wait
\* returns Err(InvalidQueryState) or Err(UnknownId): whenever a wait is past
\* its barrier and the registry is alive, its entry is in the table in a
\* terminal state.
C13_NoInternalErrors ==
    \A h \in Handles :
        /\ handles[h].res.tag \notin {"InvalidQueryState", "UnknownId"}
        /\ (PastGate(h) /\ Alive)
           => queries[handles[h].query_id].tag \in {"Received", "Timeout"}

\* a wait is past its barrier, before its remove, with the registry alive
C13_Witness ==
    \E h \in Handles :
        /\ handles[h].pc = "upgraded"
        /\ queries[handles[h].query_id].tag = "Timeout"
        /\ owner

\* C14: per registration the entry's state changes at most once, from Sent
\* to Received or Timeout; no step of update_query, wait or drop turns a
\* terminal entry into anything but a removed one, or a Sent entry into
\* another Sent one.
C14_StateChangesOnce ==
    [][\A id \in Ids :
        /\ queries[id].tag \in {"Received", "Timeout"}
            => queries'[id] \in {queries[id], Absent}
        /\ queries[id].tag = "Sent"
            => \/ queries'[id] \in {queries[id], Absent}
               \/ queries'[id].tag \in {"Received", "Timeout"}]_vars

\* a Timeout entry that a later call with a payload has left unchanged
C14_Witness ==
    \E h \in Handles, c1, c2 \in Calls :
        /\ c1 < c2
        /\ ResolvedBy(h, c1)
        /\ calls[c1].answer = NoneAns
        /\ calls[c2].query_id = handles[h].query_id
        /\ calls[c2].answer = SomeAns(<<1, 2>>)
        /\ calls[c2].pc = "done"
        /\ Outstanding(h)
        /\ queries[handles[h].query_id] = Timeout

\* call c has arrived at the barrier of the entry it resolved
Arrived(c) ==
    \/ calls[c].pc = "suspended"
    \/ calls[c].pc = "done" /\ calls[c].old.tag = "Sent"

\* C15: a wait is past its barrier only after an update_query call for the
\* handle's own identifier has replaced the Sent state of its entry and
\* arrived at the barrier; nothing else releases a suspended wait.
C15_ResolveBeforeWaitReturns ==
    \A h \in Handles :
        (PastGate(h) \/ handles[h].pc = "returned")
        => \E c \in Calls :
            /\ ResolvedBy(h, c)
            /\ calls[c].query_id = handles[h].query_id
            /\ Arrived(c)

\* one wait is released by its resolver while another handle's wait, with
\* another identifier registered and resolved later, is still suspended
C15_Witness ==
    \E h1, h2 \in Handles, c \in Calls :
        /\ h1 # h2
        /\ PastGate(h1)
        /\ ResolvedBy(h1, c)
        /\ handles[h2].pc = "suspended"
        /\ ~BarrierReleased(barriers[h2], handles[h2].gen)
        /\ queries[handles[h2].query_id].tag = "Sent"

\* C18: no leaked entries. Every entry of the table belongs to a handle
\* that is still outstanding (not dropped, its wait not returned); once every
\* handle has been consumed by wait or dropped, the table is empty.
C18_NoLeakedEntries ==
    /\ \A id \in Ids :
        queries[id] # Absent
        => \E h \in Handles :
            /\ Outstanding(h)
            /\ handles[h].query_id = id
            /\ queries[id].tag = "Sent" => queries[id].barrier = h
    /\ (\A h \in Handles : ~Outstanding(h)) => queries = EmptyTable

\* one handle consumed by wait and one dropped unresolved, the registry
\* alive, the table empty
C18_Witness ==
    \E h1, h2 \in Handles :
        /\ handles[h1].res.tag \in {"OkSome", "OkNone"}
        /\ handles[h2].pc = "dropped"
        /\ \A c \in Calls : ~ResolvedBy(h2, c)
        /\ \A h \in Handles : ~Outstanding(h)
        /\ queries = EmptyTable
        /\ owner

\* the calls that took barrier b out of an entry
Takers(b) == {c \in Calls : calls[c].old.tag = "Sent" /\ calls[c].old.barrier = b}

\* the parties that have arrived at barrier b so far
Arrivals(b) == BarrierParties * barriers[b].generation + barriers[b].arrived

\* C20: the barrier of one add_query serves one handoff: at most one
\* update_query call and the one wait arrive at it, it completes at most one
\* generation, and no other registration's entry holds it.
C20_OneHandoffPerBarrier ==
    /\ \A b \in Handles :
        LET takers == Takers(b)
            arrived == Cardinality({c \in takers : Arrived(c)})
        IN
        /\ Cardinality(takers) <= 1
        /\ barriers[b].generation <= 1
        /\ Arrivals(b) >= arrived
        /\ Arrivals(b) <= arrived
                          + (IF handles[b].pc \in {"none", "held"} THEN 0 ELSE 1)
    /\ \A id \in Ids :
        queries[id].tag = "Sent"
        => /\ handles[queries[id].barrier].query_id = id
           /\ \A id2 \in Ids \ {id} : queries[id2] # queries[id]

\* a barrier that has completed its one generation, its entry removed, and
\* a later registration of the same identifier holding a fresh barrier
C20_Witness ==
    \E h1, h2 \in Handles :
        /\ h1 < h2
        /\ handles[h1].query_id = handles[h2].query_id
        /\ barriers[h1].generation = 1
        /\ Cardinality(Takers(h1)) = 1
        /\ queries[handles[h2].query_id] = Sent(h2)

\* the step in which handle h's wait goes up to or through its barrier
WaitsAtBarrier(h) ==
    /\ handles[h].pc \in {"held", "suspended"}
    /\ handles'[h].pc \in {"suspended", "passed"}
    /\ handles'[h].pc # handles[h].pc

\* C16: no context is at the barrier holding a table lock: a call that goes
\* on to the barrier or is suspended at it holds no entry guard, and a wait
\* does not touch the table in its steps up to the firing of the barrier.
C16_NoLockAcrossBarrier ==
    [][/\ \A c \in Calls :
            calls'[c].pc \in {"matched", "suspended"} => ~calls'[c].guard
       /\ \A h \in Handles : WaitsAtBarrier(h) => queries' = queries]_vars

\* a call suspended at the barrier and a wait suspended at another one,
\* while a third operation has gone through the table
C16_Witness ==
    \E c1, c2 \in Calls, h \in Handles :
        /\ calls[c1].pc = "suspended"
        /\ ~calls[c1].guard
        /\ calls[c1].old.barrier # h
        /\ handles[h].pc = "suspended"
        /\ c1 < c2
        /\ calls[c2].pc = "done"

\* the step removes the entry of id while the cache lives on
Vanishes(id) ==
    /\ queries[id] # Absent
    /\ queries'[id] = Absent
    /\ owner' \/ Upgraded(handles') # {}

\* C17: with every identifier registered at most once at a time, each
\* entry is removed once while the registry is alive: by the wait past its
\* barrier or by the drop of a handle whose wait has not finished, never by
\* both and never by update_query. A handle makes at most one remove call,
\* which finds its entry; the drop of a finished handle makes none.
C17_RemovedExactlyOnce ==
    [][/\ \A id \in Ids :
            Vanishes(id)
            => /\ calls' = calls
               /\ \E h \in Handles :
                    /\ handles[h].query_id = id
                    /\ handles'[h].removes = handles[h].removes + 1
                    /\ \/ handles[h].pc = "upgraded" /\ handles'[h].pc = "returned"
                       \/ handles[h].pc \in {"held", "suspended"}
                          /\ handles'[h].pc = "dropped"
                    /\ \A g \in Handles \ {h} : handles'[g] = handles[g]
       /\ \A h \in Handles :
            /\ handles'[h].removes <= 1
            /\ handles'[h].removes > handles[h].removes
                => queries[handles[h].query_id] # Absent
            /\ (handles'[h].pc = "returned"
                /\ handles'[h].res # Err("CacheDropped"))
                => handles'[h].removes = 1
            /\ (handles'[h].pc = "dropped" /\ owner') => handles'[h].removes = 1]_vars

\* one entry removed by its wait and one by the drop of an abandoned wait
\* whose entry was already resolved, each handle with one remove call
C17_Witness ==
    \E h1, h2 \in Handles, c \in Calls :
        /\ handles[h1].pc = "returned" /\ handles[h1].removes = 1
        /\ handles[h1].res.tag \in {"OkSome", "OkNone"}
        /\ handles[h2].pc = "dropped" /\ handles[h2].removes = 1
        /\ ResolvedBy(h2, c)
        /\ queries = EmptyTable
        /\ owner

\* the identifier a step works on, if it is a step of add_query,
\* update_query, wait or drop
StepOn(id) ==
    \/ \E c \in Calls : calls'[c] # calls[c] /\ calls'[c].query_id = id
    \/ \E h \in Handles : handles'[h] # handles[h] /\ handles'[h].query_id = id

\* what may run for identifier b, going by its own handle and by the
\* caller alone, is enabled
Unhindered(b) ==
    /\ (owner /\ NextCall # 0)
        => \A ans \in Answers : ENABLED UpdateEntry(b, ans)
    /\ (owner /\ NextHandle # 0 /\ ~Registered(b)) => ENABLED AddQuery(b)
    /\ \A h \in Handles :
        handles[h].query_id = b
        => /\ handles[h].pc = "held" => ENABLED WaitArrive(h)
           /\ handles[h].pc \in {"held", "suspended"} => ENABLED DropHandle(h)
           /\ handles[h].pc = "passed" => ENABLED WaitUpgrade(h)
           /\ handles[h].pc = "upgraded" => ENABLED WaitRemove(h)

\* C19: no cross-identifier interference. An entry changes only in a step
\* of an operation for its own identifier (or when the table is dropped with
\* the cache), and while a call is suspended at the barrier of identifier a,
\* add_query, update_query, wait and drop for another identifier b can all
\* take their steps.
C19_NoCrossIdInterference ==
    [][/\ \A b \in Ids :
            queries'[b] # queries[b]
            => \/ StepOn(b) /\ \A a \in Ids \ {b} : ~StepOn(a)
               \/ ~(owner' \/ Upgraded(handles') # {})
       /\ \A c \in Calls, b \in Ids :
            (calls[c].pc = "suspended" /\ calls[c].query_id # b)
            => Unhindered(b)]_vars

\* a call suspended at the barrier of one identifier, and the other
\* identifier registered, resolved, waited on and removed since
C19_Witness ==
    \E c1, c2 \in Calls, h1, h2 \in Handles :
        /\ c1 < c2 /\ h1 < h2
        /\ calls[c1].pc = "suspended"
        /\ ResolvedBy(h1, c1) /\ ResolvedBy(h2, c2)
        /\ calls[c2].res = "OkTrue"
        /\ handles[h2].res = OkSome(<<1, 2>>)
        /\ queries[handles[h1].query_id] # Absent
        /\ queries[handles[h2].query_id] = Absent

\* the step in which handle h's wait, past its barrier, tries the upgrade
Upgrades(h) == handles[h].pc = "passed" /\ handles'[h].pc # "passed"

\* C21: wait returns Err(CacheDropped) exactly when, past its barrier, it
\* finds no strong reference to the registry left; it then returns at once,
\* reading and removing nothing. Handles hold weak references only: with the
\* owner's reference gone and no wait holding an upgraded one, the table is
\* gone whatever handles are outstanding.
C21_CacheDroppedIffNoStrongRef ==
    [][/\ \A h \in Handles :
            /\ Upgrades(h)
                => /\ handles'[h].res = Err("CacheDropped")
                      <=> ~(owner \/ Upgraded(handles) # {})
                   /\ handles'[h].res = Err("CacheDropped")
                      => /\ handles'[h].pc = "returned"
                         /\ handles'[h].removes = 0
                         /\ queries' = queries
                   /\ handles'[h].res # Err("CacheDropped")
                      => handles'[h].pc = "upgraded"
            /\ (handles'[h].res = Err("CacheDropped")
                /\ handles[h].res # Err("CacheDropped"))
                => Upgrades(h)
       /\ ~(owner' \/ Upgraded(handles') # {}) => queries' = EmptyTable]_vars

\* one wait found the registry gone while another handle, never waited on,
\* is still held, its entry gone with the table
C21_Witness ==
    \E h1, h2 \in Handles :
        /\ handles[h1].pc = "returned"
        /\ handles[h1].res = Err("CacheDropped")
        /\ handles[h1].removes = 0
        /\ handles[h2].pc = "held"
        /\ queries = EmptyTable
        /\ ~owner

\* the step in which add_query returns handle h
Registers(h) == handles[h].pc = "none" /\ handles'[h].pc # "none"

\* C22: add_query(id), on any identifier, returns its handle in one step
\* and leaves the table with the entry of id Sent, holding the barrier of
\* the returned handle: a fresh one, with no party arrived and held by no
\* other entry, handle or call. A prior entry of id, whatever its state, is
\* overwritten without error; every other identifier's entry, every other
\* handle, the barriers and the calls are left as they were.
C22_AddQueryInsertsFreshEntry ==
    [][\A h \in Handles :
        Registers(h)
        => LET id == handles'[h].query_id IN
            /\ id \in Ids
            /\ handles'[h] = NewHandle(id)
            /\ queries'[id] = Sent(h)
            /\ \A b \in Ids \ {id} : queries'[b] = queries[b]
            /\ barriers'[h] = [arrived |-> 0, generation |-> 0]
            /\ \A b \in Ids : queries[b] # Sent(h)
            /\ \A c \in Calls : calls[c].old # Sent(h)
            /\ \A g \in Handles \ {h} : handles'[g] = handles[g]
            /\ barriers' = barriers
            /\ calls' = calls]_vars

\* an identifier registered again over an entry that a call had resolved:
\* both handles are held, the entry is Sent with the second one's barrier
C22_Witness ==
    \E h1, h2 \in Handles, c \in Calls :
        /\ h1 < h2
        /\ handles[h1].pc = "held" /\ handles[h2].pc = "held"
        /\ handles[h1].query_id = handles[h2].query_id
        /\ ResolvedBy(h1, c)
        /\ calls[c].answer = SomeAns(<<1, 2>>)
        /\ queries[handles[h2].query_id] = Sent(h2)
        /\ barriers[h2] = [arrived |-> 0, generation |-> 0]

\* C23: the drop of a handle takes one step, changes no result and arrives
\* at no barrier, whether the registry is alive or not: the barriers, the
\* calls and the other handles stay as they are. With the registry torn
\* down it is a no-op: it makes no remove call and leaves the table alone.
C23_DropNeverSignals ==
    [][\A h \in Handles :
        Drops(h)
        => /\ barriers' = barriers
           /\ calls' = calls
           /\ handles'[h].res = handles[h].res
           /\ \A g \in Handles \ {h} : handles'[g] = handles[g]
           /\ ~(owner \/ Upgraded(handles) # {})
              => /\ handles'[h].removes = handles[h].removes
                 /\ queries' = queries
                 /\ owner' = owner]_vars

\* after the teardown, a handle was dropped out of a suspended wait: its
\* barrier still counts the one party, no remove call was made; another
\* handle had been dropped, with its remove, while the registry was alive
C23_Witness ==
    \E h1, h2 \in Handles :
        /\ handles[h1].pc = "dropped"
        /\ handles[h1].removes = 0
        /\ barriers[h1] = [arrived |-> 1, generation |-> 0]
        /\ handles[h1].res = Pending
        /\ handles[h2].pc = "dropped"
        /\ handles[h2].removes = 1
        /\ ~owner

\* C24: update_query returns Ok(true) only after the wait of the handle of
\* that registration has arrived at the same barrier: the call took the
\* barrier out of that handle's entry, the barrier has completed its
\* generation with the call as the only taker, and the wait has begun. Until
\* the handle's wait begins, the call that deposited the outcome has no
\* result.
C24_OkTrueAfterWaitArrived ==
    \A c \in Calls :
        LET b == calls[c].old.barrier IN
        /\ calls[c].res = "OkTrue"
            => /\ calls[c].old.tag = "Sent"
               /\ calls[c].query_id = handles[b].query_id
               /\ barriers[b].generation = 1
               /\ Takers(b) = {c}
               /\ handles[b].pc \notin {"none", "held"}
        /\ (calls[c].old.tag = "Sent" /\ barriers[b].generation = 0)
            => /\ calls[c].res = "none"
               /\ calls[c].pc \in {"matched", "suspended"}
               /\ handles[b].pc \in {"held", "suspended", "dropped"}

\* one call suspended at the barrier of a handle that has not begun to
\* wait, another returned Ok(true) with its handle's wait past the barrier
C24_Witness ==
    \E c1, c2 \in Calls, h1, h2 \in Handles :
        /\ ResolvedBy(h1, c1) /\ ResolvedBy(h2, c2)
        /\ calls[c1].pc = "suspended"
        /\ handles[h1].pc = "held"
        /\ calls[c2].res = "OkTrue"
        /\ handles[h2].pc = "passed"

\* C25: the drop of a handle removes the entry of its own registration
\* only: when the identifier has been registered again and the table holds
\* the later registration's entry, with that registration's barrier, the
\* drop of the earlier handle leaves this entry in place, so that a call can
\* still resolve the later handle's wait.
C25_DropKeepsLaterRegistration ==
    [][\A h, g \in Handles :
        (/\ Drops(h)
         /\ g # h
         /\ Outstanding(g)
         /\ handles[g].query_id = handles[h].query_id
         /\ queries[handles[g].query_id] = Sent(g))
        => queries'[handles[g].query_id] = Sent(g)]_vars

\* the bytes encode one Unicode scalar value: the bit pattern of its length,
\* the shortest encoding of the value, no surrogate, at most 10FFFF
Scalar(s) ==
    LET tail(i) == s[i] - 128 IN
    \/ Len(s) = 1 /\ s[1] < 128
    \/ /\ Len(s) = 2 /\ s[1] >= 192 /\ s[1] <= 223 /\ IsCont(s[2])
       /\ (s[1] - 192) * 64 + tail(2) >= 128
    \/ /\ Len(s) = 3 /\ s[1] >= 224 /\ s[1] <= 239
       /\ IsCont(s[2]) /\ IsCont(s[3])
       /\ LET v == (s[1] - 224) * 4096 + tail(2) * 64 + tail(3) IN
            v >= 2048 /\ ~(v >= 55296 /\ v <= 57343)
    \/ /\ Len(s) = 4 /\ s[1] >= 240 /\ s[1] <= 247
       /\ IsCont(s[2]) /\ IsCont(s[3]) /\ IsCont(s[4])
       /\ LET v == (s[1] - 240) * 262144 + tail(2) * 4096 + tail(3) * 64 + tail(4)
          IN v >= 65536 /\ v <= 1114111

\* valid UTF-8: a concatenation of encoded scalar values
RECURSIVE IsUtf8(_)
IsUtf8(s) ==
    \/ s = <<>>
    \/ \E n \in 1..(IF Len(s) < 4 THEN Len(s) ELSE 4) :
        Scalar(SubSeq(s, 1, n)) /\ IsUtf8(SubSeq(s, n + 1, Len(s)))

\* the output starts with the prefix
StartsWithPrefix(out) ==
    /\ Len(out) >= Len(Prefix)
    /\ \A i \in 1..Len(Prefix) : out[i] = Prefix[i]

\* v is the bytes between the prefix and the first newline behind it, or
\* the end of the output
VersionBytes(out, v) ==
    /\ Len(Prefix) + Len(v) <= Len(out)
    /\ \A i \in 1..Len(v) : v[i] = out[Len(Prefix) + i] /\ v[i] # Newline
    /\ \/ Len(Prefix) + Len(v) = Len(out)
       \/ out[Len(Prefix) + Len(v) + 1] = Newline

\* the slices of the output that start behind the prefix
BehindPrefix(out) ==
    {SubSeq(out, Len(Prefix) + 1, e) : e \in Len(Prefix)..Len(out)}

\* C26: parse_node_version returns Some(v) exactly when the output starts
\* with "TON Node, version " and the bytes between that prefix and the first
\* newline (or the end of the output) are valid UTF-8, v being those bytes;
\* otherwise, and for every output that does not start with the prefix, it
\* returns None.
C26_ParseNodeVersion ==
    version # Unparsed
    => /\ version.tag \in {"Some", "None"}
       /\ version.tag = "Some"
          <=> /\ StartsWithPrefix(output)
              /\ \E v \in BehindPrefix(output) :
                    VersionBytes(output, v) /\ IsUtf8(v)
       /\ version.tag = "Some"
          => VersionBytes(output, version.val) /\ IsUtf8(version.val)
       /\ ~StartsWithPrefix(output) => version = NoVersion

\* the version read up to the newline, a two-byte character in it, the byte
\* behind the newline being no UTF-8
C26_Witness ==
    /\ output = Prefix \o <<195, 169, Newline, 255>>
    /\ version = SomeVersion(<<195, 169>>)

====
